---- MODULE Spec2Model ----
(***************************************************************************)
(* A model of the authentication part of the Spotify Web API client:       *)
(*   - the implicit grant: getRedirectURL, parseCallbackData               *)
(*   - the authorization code grant: AuthCode.getAuthURL, getGrantData,    *)
(*     refresh, createAuthProvider                                         *)
(*   - the next-ssr example's callback handler                             *)
(*                                                                         *)
(* Strings are sequences of tokens.  A token is one character ("#", "&",   *)
(* "=", "+", " ", "v", ...), one percent escape ("%26", ...) or one word   *)
(* of several ordinary characters ("error", "access_token", ...).          *)
(***************************************************************************)
EXTENDS Integers, Sequences, FiniteSets, TLC

VARIABLES
    call,       \* the pure call under study: its operation and arguments
    ret,        \* what that call returned or threw (None before the call)
    tc,         \* the token client's calls in flight, one per task
    sent,       \* how many requests the token client has handed to fetch
    cookies,    \* the browser's cookies for the example application
    http,       \* the callback handler's requests awaiting the exchange, one per task
    answer,     \* the last answer of the callback handler (None before the first)
    issued,     \* how many times the example application issued a state
    cache,      \* the AuthProvider's cached token (None when Empty)
    now,        \* the clock the AuthProvider reads
    getter,     \* the getAccessToken() calls, one per task
    refreshes,  \* how many times the refresh function was invoked
    served      \* how many access tokens the token endpoint has issued

vars == <<call, ret, tc, sent, cookies, http, answer, issued, cache, now, getter,
          refreshes, served>>

pureVars == <<call, ret>>
tokenVars == <<tc, sent, served>>
handlerVars == <<cookies, http, answer, issued>>
providerVars == <<cache, now, getter, refreshes>>

None == [kind |-> "none"]
Undefined == [kind |-> "undefined"]

Range(s) == {s[i] : i \in 1..Len(s)}

(***************************************************************************)
(* Bounds of the model.                                                    *)
(***************************************************************************)
MaxSegs == 3        \* "&"-separated segments of a callback string
MaxScopes == 2      \* scopes passed to getAuthURL / getRedirectURL
MaxTasks == 2       \* concurrent callers (handler requests, token getters)
MaxSent == 2        \* requests handed to fetch in one behaviour
MaxExchanges == 1   \* exchanges the callback handler starts in one behaviour
MaxTime == 3        \* the clock stops here
MaxIssued == 2      \* states the example application issues

(***************************************************************************)
(* Values of the program: strings, booleans, undefined.                    *)
(***************************************************************************)
Str(s) == [kind |-> "string", s |-> s]
Bool(b) == [kind |-> "boolean", b |-> b]

\* String(value), as a query string serialiser applies it to a present value.
Stringify(v) ==
    IF v.kind = "boolean" THEN (IF v.b THEN <<"true">> ELSE <<"false">>)
    ELSE v.s

(***************************************************************************)
(* application/x-www-form-urlencoded, as URLSearchParams implements it.    *)
(***************************************************************************)
EncodeToken(t) ==
    CASE t = "&" -> "%26"
      [] t = "=" -> "%3D"
      [] t = "+" -> "%2B"
      [] t = "#" -> "%23"
      [] t = "?" -> "%3F"
      [] t = " " -> "+"
      [] OTHER -> t

DecodeToken(t) ==
    CASE t = "%26" -> "&"
      [] t = "%3D" -> "="
      [] t = "%2B" -> "+"
      [] t = "%23" -> "#"
      [] t = "%3F" -> "?"
      [] t = "+" -> " "
      [] OTHER -> t

EncodeString(s) == [i \in 1..Len(s) |-> EncodeToken(s[i])]
DecodeString(s) == [i \in 1..Len(s) |-> DecodeToken(s[i])]

Has(s, t) == \E i \in 1..Len(s) : s[i] = t
First(s, t) == CHOOSE i \in 1..Len(s) : s[i] = t /\ \A j \in 1..(i - 1) : s[j] # t

RECURSIVE Split(_, _)
Split(s, sep) ==
    IF ~Has(s, sep) THEN <<s>>
    ELSE <<SubSeq(s, 1, First(s, sep) - 1)>>
         \o Split(SubSeq(s, First(s, sep) + 1, Len(s)), sep)

\* One "name=value" segment: the name ends at the first "=", a segment
\* without "=" has the empty value.
ParsePair(seg) ==
    IF Has(seg, "=")
    THEN <<DecodeString(SubSeq(seg, 1, First(seg, "=") - 1)),
           DecodeString(SubSeq(seg, First(seg, "=") + 1, Len(seg)))>>
    ELSE <<DecodeString(seg), <<>>>>

RECURSIVE ParsePairs(_)
ParsePairs(segs) ==
    IF segs = <<>> THEN <<>>
    ELSE (IF Head(segs) = <<>> THEN <<>> ELSE <<ParsePair(Head(segs))>>)
         \o ParsePairs(Tail(segs))

\* new URLSearchParams(init): one leading "?" is dropped, empty segments are
\* skipped, the entries keep the order of the string.
URLSearchParams(init) ==
    LET q == IF init # <<>> /\ Head(init) = "?" THEN Tail(init) ELSE init
    IN ParsePairs(Split(q, "&"))

\* Object.fromEntries(entries): the last entry of a key wins.
FromEntries(entries) ==
    [k \in {e[1] : e \in Range(entries)} |->
        LET last == CHOOSE i \in 1..Len(entries) :
                        /\ entries[i][1] = k
                        /\ \A j \in (i + 1)..Len(entries) : entries[j][1] # k
        IN entries[last][2]]

\* The words of the model with their first character removed.
RestOf(t) ==
    CASE t = "error" -> "rror"
      [] t = "access_token" -> "ccess_token"
      [] t = "expires_in" -> "xpires_in"
      [] t = "token_type" -> "oken_type"
      [] t = "state" -> "tate"
      [] t = "code" -> "ode"
      [] OTHER -> "rest"

Escapes == {"%26", "%3D", "%2B", "%23", "%3F"}
Chars == {"#", "?", "&", "=", "+", " ", "v", "w"}

\* hash.substring(1): the string without its first character, whatever it is.
Substring1(s) ==
    IF s = <<>> THEN <<>>
    ELSE IF Head(s) \in Chars THEN Tail(s)
    ELSE IF Head(s) \in Escapes THEN <<"rest">> \o Tail(s)
    ELSE <<RestOf(Head(s))>> \o Tail(s)

(***************************************************************************)
(* Objects keep their keys in insertion order: a sequence of entries       *)
(* [k, v] with distinct keys.                                              *)
(***************************************************************************)
Entry(k, v) == [k |-> k, v |-> v]

\* obj[k] = v: an existing key keeps its place and takes the new value.
Assign(obj, e) ==
    IF \E i \in 1..Len(obj) : obj[i].k = e.k
    THEN [i \in 1..Len(obj) |-> IF obj[i].k = e.k THEN e ELSE obj[i]]
    ELSE Append(obj, e)

\* { ...obj, ...src }
RECURSIVE Spread(_, _)
Spread(obj, src) ==
    IF src = <<>> THEN obj ELSE Spread(Assign(obj, Head(src)), Tail(src))

RECURSIVE JoinWith(_, _)
JoinWith(parts, sep) ==
    IF parts = <<>> THEN <<>>
    ELSE IF Len(parts) = 1 THEN Head(parts)
    ELSE Head(parts) \o <<sep>> \o JoinWith(Tail(parts), sep)

\* toQueryString / objectToSearchParams(...).toString(): the entries whose
\* value is present, in insertion order, each url-encoded, joined by "&".
ToQueryString(obj) ==
    LET present == SelectSeq(obj, LAMBDA e : e.v.kind # "undefined")
    IN JoinWith([i \in 1..Len(present) |->
                    EncodeString(<<present[i].k>>) \o <<"=">>
                    \o EncodeString(Stringify(present[i].v))], "&")

\* url.search = q
SetSearch(url, q) ==
    [url EXCEPT !.search =
        IF q = <<>> THEN <<>>
        ELSE <<"?">> \o (IF Head(q) = "?" THEN Tail(q) ELSE q)]

\* scopes?.join(" ")
JoinScopes(scopes) ==
    IF scopes.kind = "undefined" THEN Undefined
    ELSE Str(JoinWith([i \in 1..Len(scopes.list) |-> <<scopes.list[i]>>], " "))

Return(v) == [kind |-> "return", value |-> v]
Throw(e) == [kind |-> "throw", error |-> e]

(***************************************************************************)
(* Authorization URLs.                                                     *)
(***************************************************************************)
\* new URL(href): the address, kept as the parts the source joins, and an
\* empty query.
NewURL(href) == [base |-> href, search |-> <<>>]

\* AuthCode.getAuthURL({ scopes, ...opts })
GetAuthURL(client_id, scopes, opts) ==
    SetSearch(NewURL(<<"SPOTIFY_AUTH", "authorize">>),
        ToQueryString(Spread(<<Entry("response_type", Str(<<"code">>)),
                               Entry("scope", JoinScopes(scopes)),
                               Entry("client_id", Str(client_id))>>, opts)))

\* getRedirectURL({ scopes, ...opts }) of the implicit grant
GetRedirectURL(scopes, opts) ==
    SetSearch(NewURL(<<"AUTHORIZE_URL">>),
        ToQueryString(Spread(<<Entry("response_type", Str(<<"token">>)),
                               Entry("scope", JoinScopes(scopes))>>, opts)))

(***************************************************************************)
(* Callback parsers.                                                       *)
(***************************************************************************)
In(key, params) == <<key>> \in DOMAIN params

\* parseCallbackData with a success test that asks for the token alone.
ParseCallbackDataTokenOnly(hash) ==
    LET params == FromEntries(URLSearchParams(Substring1(hash)))
    IN IF In("error", params) THEN Return(params)
       ELSE IF In("access_token", params) THEN Return(params)
       ELSE Throw("Invalid params")

\* parseCallbackData(hash) of the implicit grant
ParseCallbackData(hash) ==
    LET params == FromEntries(URLSearchParams(Substring1(hash)))
    IN IF In("error", params) THEN Return(params)
       ELSE IF In("access_token", params) /\ In("expires_in", params)
               /\ In("token_type", params)
       THEN Return(params)
       ELSE Throw("Invalid params")

\* AuthCode.parseCallbackData(searchParams) of the authorization code grant
ParseCodeCallbackData(searchParams) ==
    LET params == FromEntries(searchParams)
    IN IF In("error", params) THEN Return(params)
       ELSE IF In("code", params) THEN Return(params)
       ELSE Throw("Invalid params")

(***************************************************************************)
(* The calls of the pure functions that the model tries.                   *)
(***************************************************************************)
SeqsUpTo(S, n) == UNION {[1..m -> S] : m \in 0..n}

ScopeNames == {"user-read-email", "streaming"}
ScopeArgs == {Undefined} \cup {[kind |-> "array", list |-> l] : l \in SeqsUpTo(ScopeNames, MaxScopes)}
ClientIds == {<<"cid">>}
RedirectURIs == {Str(<<"http://a/cb">>),
                 Str(<<"http://a/cb", "?", "x", "=", "v", "&", "w">>)}
StateArgs == {None, Undefined, Str(<<>>), Str(<<"s1">>),
              Str(<<"v", "&", "w", " ", "+", "#">>)}
DialogArgs == {None, Bool(TRUE), Bool(FALSE)}
\* A caller's object may carry more keys than the declared option type names.
ResponseTypeArgs == {None, Str(<<"code">>), Str(<<"token">>)}

Field(k, v) == IF v.kind = "none" THEN <<>> ELSE <<Entry(k, v)>>

AuthURLCalls ==
    {[op |-> "getAuthURL", client_id |-> c, scopes |-> sc,
      redirect_uri |-> ru, state |-> st, show_dialog |-> sd, response_type |-> rt,
      opts |-> Field("redirect_uri", ru) \o Field("state", st)
               \o Field("show_dialog", sd) \o Field("response_type", rt)] :
        c \in ClientIds, sc \in ScopeArgs, ru \in RedirectURIs, st \in StateArgs,
        sd \in DialogArgs, rt \in ResponseTypeArgs}

RedirectURLCalls ==
    {[op |-> "getRedirectURL", client_id |-> c, scopes |-> sc,
      redirect_uri |-> ru, state |-> st, show_dialog |-> sd, response_type |-> rt,
      opts |-> Field("client_id", Str(c)) \o Field("redirect_uri", ru)
               \o Field("state", st) \o Field("show_dialog", sd)
               \o Field("response_type", rt)] :
        c \in ClientIds, sc \in ScopeArgs, ru \in RedirectURIs, st \in StateArgs,
        sd \in DialogArgs, rt \in ResponseTypeArgs}

Segs == {<<>>, <<"error">>, <<"error", "=", "v">>, <<"access_token", "=", "v">>,
         <<"access_token", "=", "w">>, <<"expires_in", "=", "v">>,
         <<"token_type", "=", "v">>, <<"state", "=", "w">>, <<"code", "=", "v">>}
Leads == {<<>>, <<"#">>}

ParseCalls ==
    {[op |-> "parseCallbackData", lead |-> lead, segs |-> segs,
      hash |-> lead \o JoinWith(segs, "&")] :
        lead \in Leads, segs \in SeqsUpTo(Segs, MaxSegs)}
ParseCodeCalls ==
    {[op |-> "parseCodeCallbackData", segs |-> segs,
      query |-> <<"?">> \o JoinWith(segs, "&")] :
        segs \in SeqsUpTo(Segs, MaxSegs)}

Tasks == 1..MaxTasks

(***************************************************************************)
(* The token client: AuthCode.getGrantData and AuthCode.refresh.           *)
(***************************************************************************)
URL_ENCODED == "application/x-www-form-urlencoded"

\* getBasicAuthHeader(client_id, client_secret), computed once by the
\* constructor: "Basic " + base64(client_id + ":" + client_secret)
GetBasicAuthHeader(client_id, client_secret) ==
    [scheme |-> "Basic", base64 |-> client_id \o <<":">> \o client_secret]

Creds == [client_id |-> <<"cid">>, client_secret |-> <<"secret">>]
BasicAuthHeader == GetBasicAuthHeader(Creds.client_id, Creds.client_secret)

\* The request getGrantData hands to fetch.
GrantRequest(redirect_uri, code) ==
    [method |-> "POST",
     url |-> SetSearch(NewURL(<<"SPOTIFY_AUTH", "api/token">>),
                ToQueryString(<<Entry("code", Str(code)),
                                Entry("redirect_uri", Str(redirect_uri)),
                                Entry("grant_type", Str(<<"authorization_code">>))>>)),
     headers |-> [Authorization |-> BasicAuthHeader, ContentType |-> URL_ENCODED],
     body |-> Undefined]

\* The request refresh hands to fetch.
RefreshRequest(refresh_token) ==
    [method |-> "POST",
     url |-> SetSearch(NewURL(<<"SPOTIFY_AUTH", "api/token">>),
                ToQueryString(<<Entry("refresh_token", Str(refresh_token)),
                                Entry("grant_type", Str(<<"refresh_token">>))>>)),
     headers |-> [Authorization |-> BasicAuthHeader, ContentType |-> URL_ENCODED],
     body |-> Undefined]

\* SpotifyAuthError.create(res): the error body and the status of the response
SpotifyAuthError(res) ==
    [name |-> "SpotifyAuthError", status |-> res.status, body |-> res.json]

\* What fetch throws when the transport fails.
TransportError == [name |-> "TypeError"]

\* The rest of getGrantData / refresh once fetch has settled:
\*   if (!res.ok) throw await SpotifyAuthError.create(res);
\*   return await res.json();
FetchOutcomeUnchecked(res) ==
    IF res.kind = "failure" THEN Throw(TransportError) ELSE Return(res.json)

FetchOutcome(res) ==
    IF res.kind = "failure" THEN Throw(TransportError)
    ELSE IF ~res.ok THEN Throw(SpotifyAuthError(res))
    ELSE Return(res.json)

IdleCall == [pc |-> "idle"]

\* A call of getGrantData or refresh up to its await of fetch.
StartCall(op, req) ==
    [pc |-> "fetching", op |-> op, req |-> req, fetches |-> 1]

\* The expires_in of the tokens the endpoint issues, in ticks of the clock.
Lifetimes == {1, 2}

\* What the token endpoint, or the transport, answers to one request.
Responses ==
    {[kind |-> "response", ok |-> TRUE, status |-> 200,
      json |-> [access_token |-> served + 1, token_type |-> "Bearer",
                expires_in |-> e, refresh_token |-> served + 1]] :
        e \in Lifetimes}
    \cup {[kind |-> "response", ok |-> FALSE, status |-> 400,
           json |-> [error |-> "invalid_grant"]],
          [kind |-> "failure"]}

\* fetch settles: the environment's step.
FetchSettles(t) ==
    /\ tc[t].pc = "fetching"
    /\ \E res \in Responses :
        /\ tc' = [tc EXCEPT ![t] = [pc |-> "settled", op |-> tc[t].op,
                                    req |-> tc[t].req, fetches |-> tc[t].fetches,
                                    res |-> res]]
        /\ served' = IF res.kind = "response" /\ res.ok THEN served + 1 ELSE served
    /\ UNCHANGED <<sent, pureVars, handlerVars, providerVars>>

\* getGrantData goes on after its await of fetch.
GetGrantDataResume(t) ==
    /\ tc[t].pc = "settled" /\ tc[t].op = "getGrantData"
    /\ tc' = [tc EXCEPT ![t] = [pc |-> "done", op |-> tc[t].op, req |-> tc[t].req,
                                fetches |-> tc[t].fetches, res |-> tc[t].res,
                                out |-> FetchOutcome(tc[t].res)]]
    /\ UNCHANGED <<sent, served, pureVars, handlerVars, providerVars>>

\* refresh goes on after its await of fetch.
RefreshResume(t) ==
    /\ tc[t].pc = "settled" /\ tc[t].op = "refresh"
    /\ tc' = [tc EXCEPT ![t] = [pc |-> "done", op |-> tc[t].op, req |-> tc[t].req,
                                fetches |-> tc[t].fetches, res |-> tc[t].res,
                                out |-> FetchOutcome(tc[t].res)]]
    /\ UNCHANGED <<sent, served, pureVars, handlerVars, providerVars>>

\* Callers of the token client in the token client's own specification.
Codes == {<<"c1">>, <<"c", "&", "1">>}
RefreshTokens == {<<"rt">>, <<"r", "=", "t">>}
REDIRECT_URI == <<"http://a/cb">>

CallGetGrantData(t) ==
    /\ tc[t].pc = "idle" /\ sent < MaxSent
    /\ \E code \in Codes :
        /\ tc' = [tc EXCEPT ![t] = StartCall("getGrantData", GrantRequest(REDIRECT_URI, code))]
        /\ sent' = sent + 1
    /\ UNCHANGED <<served, pureVars, handlerVars, providerVars>>

CallRefresh(t) ==
    /\ tc[t].pc = "idle" /\ sent < MaxSent
    /\ \E rt \in RefreshTokens :
        /\ tc' = [tc EXCEPT ![t] = StartCall("refresh", RefreshRequest(rt))]
        /\ sent' = sent + 1
    /\ UNCHANGED <<served, pureVars, handlerVars, providerVars>>

\* The caller takes the result.
Collect(t) ==
    /\ tc[t].pc = "done"
    /\ tc' = [tc EXCEPT ![t] = IdleCall]
    /\ UNCHANGED <<sent, served, pureVars, handlerVars, providerVars>>

(***************************************************************************)
(* The pure functions: one call is drawn, then made.                       *)
(***************************************************************************)
CallGetAuthURL ==
    /\ call.op = "getAuthURL" /\ ret.kind = "none"
    /\ ret' = Return(GetAuthURL(call.client_id, call.scopes, call.opts))
    /\ UNCHANGED <<call, tokenVars, handlerVars, providerVars>>

CallGetRedirectURL ==
    /\ call.op = "getRedirectURL" /\ ret.kind = "none"
    /\ ret' = Return(GetRedirectURL(call.scopes, call.opts))
    /\ UNCHANGED <<call, tokenVars, handlerVars, providerVars>>

CallParseCallbackData ==
    /\ call.op = "parseCallbackData" /\ ret.kind = "none"
    /\ ret' = ParseCallbackData(call.hash)
    /\ UNCHANGED <<call, tokenVars, handlerVars, providerVars>>

CallParseCodeCallbackData ==
    /\ call.op = "parseCodeCallbackData" /\ ret.kind = "none"
    /\ ret' = ParseCodeCallbackData(URLSearchParams(call.query))
    /\ UNCHANGED <<call, tokenVars, handlerVars, providerVars>>

(***************************************************************************)
(* The callback handler of the next-ssr example.                           *)
(***************************************************************************)
SPOTIFY_ACCESS_TOKEN == "SPOTIFY_ACCESS_TOKEN"
SPOTIFY_REFRESH_TOKEN == "SPOTIFY_REFRESH_TOKEN"
SPOTIFY_STATE == "SPOTIFY_STATE"
CookieNames == {SPOTIFY_ACCESS_TOKEN, SPOTIFY_REFRESH_TOKEN, SPOTIFY_STATE}

GetCookie(jar, name) == jar[name]
DeleteCookieKeeps(jar, name) == jar
DeleteCookie(jar, name) == [jar EXCEPT ![name] = Undefined]
SetCookie(jar, name, value) == [jar EXCEPT ![name] = value]

\* new URL(req.url, ...).searchParams
SearchParams(url) ==
    IF Has(url, "?") THEN URLSearchParams(SubSeq(url, First(url, "?"), Len(url)))
    ELSE <<>>

\* typeof data.state !== "string" || !storedState || data.state !== storedState
StateCheckFailsLoose(data, storedState) ==
    \/ ~In("state", data)
    \/ storedState.kind = "undefined"
StateCheckFails(data, storedState) ==
    \/ ~In("state", data)
    \/ storedState.kind = "undefined"
    \/ storedState.s = <<>>
    \/ data[<<"state">>] # storedState.s

\* res.status(status).send(body), or res.redirect(body)
Respond(req, status, body) ==
    [kind |-> "answer", req |-> req, threw |-> FALSE, status |-> status, body |-> body]
\* An error that leaves the handler: the handler sets no status and sends nothing.
Rejects(req, error) ==
    [kind |-> "answer", req |-> req, threw |-> TRUE, status |-> 0, body |-> error]

\* The handler up to its await of getGrantData: its answer when it ends
\* there, the cookies it leaves, and what it asks of the token client.
HandlerEntry(req, jar) ==
    IF req.url.kind = "undefined"
    THEN [answer |-> Respond(req, 400, <<"req.url is undefined">>), jar |-> jar, exchange |-> FALSE]
    ELSE LET parsed == ParseCodeCallbackData(SearchParams(req.url.s))
             data == parsed.value
             storedState == GetCookie(jar, SPOTIFY_STATE)
         IN IF parsed.kind = "throw"
            THEN [answer |-> Rejects(req, <<parsed.error>>), jar |-> jar, exchange |-> FALSE]
            ELSE IF In("error", data)
            THEN [answer |-> Respond(req, 400, data[<<"error">>]), jar |-> jar, exchange |-> FALSE]
            ELSE IF StateCheckFails(data, storedState)
            THEN [answer |-> Respond(req, 400, <<"Unable to verify request with state.">>),
                  jar |-> jar, exchange |-> FALSE]
            ELSE [answer |-> None,
                  jar |-> DeleteCookie(jar, SPOTIFY_STATE),
                  exchange |-> TRUE,
                  grant |-> GrantRequest(REDIRECT_URI, data[<<"code">>])]

\* The callbacks a browser may send.
StateValues == {<<"s1">>, <<"s2">>}
CallbackQueries ==
    {<<>>} \cup
    {<<"?">> \o JoinWith(segs, "&") :
        segs \in {<<<<"error", "=", "access_denied">>>>,
                  <<<<"error", "=", "access_denied">>, <<"state", "=", "s1">>>>,
                  <<<<"error", "=", "access_denied">>, <<"code", "=", "c1">>,
                    <<"state", "=", "s1">>>>,
                  <<<<"code", "=", "c1">>>>,
                  <<<<"code", "=", "c1">>, <<"state", "=">>>>,
                  <<<<"state", "=", "s1">>>>}
              \cup {<<<<"code", "=", "c1">>, <<"state", "=">> \o v>> : v \in StateValues}}
Requests ==
    {[url |-> Undefined]} \cup {[url |-> Str(<<"/api/callback">> \o q)] : q \in CallbackQueries}

IdleRequest == [pc |-> "idle"]

\* The state query parameter of a request, Undefined when it has none.
StateParam(req) ==
    IF req.url.kind = "undefined" THEN Undefined
    ELSE LET params == FromEntries(SearchParams(req.url.s))
         IN IF In("state", params) THEN Str(params[<<"state">>]) ELSE Undefined

\* A callback arrives and the handler runs up to its await, where a free
\* task takes the exchange, or to its end.
HandleCallback ==
    /\ \E req \in Requests :
        LET e == HandlerEntry(req, cookies)
        IN /\ cookies' = e.jar
           /\ IF ~e.exchange
              THEN /\ answer' = e.answer
                   /\ UNCHANGED <<http, tc, sent, issued>>
              ELSE /\ sent < MaxExchanges
                   /\ \E t \in Tasks :
                        /\ http[t].pc = "idle" /\ tc[t].pc = "idle"
                        /\ http' = [http EXCEPT ![t] = [pc |-> "exchanging", req |-> req]]
                        /\ tc' = [tc EXCEPT ![t] = StartCall("getGrantData", e.grant)]
                   /\ sent' = sent + 1
                   /\ issued' = [issued EXCEPT !.spent = @ \cup {StateParam(req)}]
                   /\ UNCHANGED answer
    /\ UNCHANGED <<served, pureVars, providerVars>>

\* getGrantData has returned or thrown: the try block ends, or the catch runs.
CallbackContinue(t) ==
    /\ http[t].pc = "exchanging" /\ tc[t].pc = "done"
    /\ IF tc[t].out.kind = "return"
       THEN /\ cookies' = SetCookie(SetCookie(cookies, SPOTIFY_REFRESH_TOKEN,
                                              [kind |-> "token", n |-> tc[t].out.value.refresh_token]),
                                    SPOTIFY_ACCESS_TOKEN,
                                    [kind |-> "token", n |-> tc[t].out.value.access_token])
            /\ answer' = Respond(http[t].req, 307, <<"/">>)
       ELSE /\ cookies' = cookies
            /\ answer' = Respond(http[t].req, 400, <<tc[t].out.error.name>>)
    /\ http' = [http EXCEPT ![t] = IdleRequest]
    /\ tc' = [tc EXCEPT ![t] = IdleCall]
    /\ UNCHANGED <<sent, served, issued, pureVars, providerVars>>

\* The application's login route stores a state before it redirects the user.
IssueState ==
    /\ issued.n < MaxIssued
    /\ \E s \in StateValues :
        cookies' = SetCookie(cookies, SPOTIFY_STATE, Str(s))
    /\ issued' = [n |-> issued.n + 1, spent |-> {}]
    /\ UNCHANGED <<http, answer, tokenVars, pureVars, providerVars>>

(***************************************************************************)
(* The AuthProvider that AuthCode.createAuthProvider returns.              *)
(***************************************************************************)
\* createAuthProvider(refresh_token, opts): the refresher is this.refresh bound
\* to the refresh token, the options (a seeded token) are passed on.
CreateAuthProvider(refresh_token, opts) ==
    [refresher |-> RefreshRequest(refresh_token), token |-> opts.token]

Seeds == {None} \cup {[kind |-> "token", access_token |-> 0, expires_at |-> x] : x \in 0..2}
Provider(seed) == CreateAuthProvider(<<"rt">>, [token |-> seed])

\* Valid: a token is cached and the clock has not reached its expiry.
IsValidNever(c, time) == FALSE
IsValid(c, time) == c.kind = "token" /\ time < c.expires_at

IdleGetter == [pc |-> "idle"]

\* getAccessToken(): the cached token while it is valid, else the refresher
\* is invoked and awaited.
GetAccessToken(t) ==
    /\ getter[t].pc = "idle" /\ tc[t].pc = "idle"
    /\ IF IsValid(cache, now)
       THEN /\ getter' = [getter EXCEPT ![t] = [pc |-> "done", at |-> now,
                                             out |-> Return(cache.access_token)]]
            /\ UNCHANGED <<tc, sent, refreshes>>
       ELSE /\ sent < MaxSent
            /\ refreshes' = refreshes + 1
            /\ tc' = [tc EXCEPT ![t] = StartCall("refresh", Provider(cache).refresher)]
            /\ sent' = sent + 1
            /\ getter' = [getter EXCEPT ![t] = [pc |-> "refreshing", at |-> now]]
    /\ UNCHANGED <<cache, now, served, pureVars, handlerVars>>

\* A provider that forgets its token when the refresher throws.
CacheAfterForgets(c, out, time) ==
    IF out.kind = "return"
    THEN [kind |-> "token", access_token |-> out.value.access_token,
          expires_at |-> time + out.value.expires_in]
    ELSE None

\* What the provider caches once the refresher has settled.
CacheAfter(c, out, time) ==
    IF out.kind = "return"
    THEN [kind |-> "token", access_token |-> out.value.access_token,
          expires_at |-> time + out.value.expires_in]
    ELSE c

\* The refresher has returned or thrown.
GetAccessTokenResume(t) ==
    /\ getter[t].pc = "refreshing" /\ tc[t].pc = "done"
    /\ cache' = CacheAfter(cache, tc[t].out, now)
    /\ getter' = [getter EXCEPT ![t] =
          [pc |-> "done", at |-> now,
           out |-> IF tc[t].out.kind = "return"
                   THEN Return(tc[t].out.value.access_token) ELSE tc[t].out]]
    /\ tc' = [tc EXCEPT ![t] = IdleCall]
    /\ UNCHANGED <<now, refreshes, sent, served, pureVars, handlerVars>>

\* The caller takes the token, or the error.
GetAccessTokenDone(t) ==
    /\ getter[t].pc = "done"
    /\ getter' = [getter EXCEPT ![t] = IdleGetter]
    /\ UNCHANGED <<cache, now, refreshes, tokenVars, pureVars, handlerVars>>

Tick ==
    /\ now < MaxTime
    /\ now' = now + 1
    /\ UNCHANGED <<cache, getter, refreshes, tokenVars, pureVars, handlerVars>>

(***************************************************************************)
(* Specifications.                                                         *)
(***************************************************************************)
NoCall == [op |-> "none"]

IdleToken == tc = [t \in Tasks |-> IdleCall] /\ sent = 0 /\ served = 0
IdlePure == call = NoCall /\ ret = None
IdleHandler ==
    /\ cookies = [n \in CookieNames |-> Undefined]
    /\ http = [t \in Tasks |-> IdleRequest]
    /\ answer = None
    /\ issued = [n |-> 0, spent |-> {}]
IdleProvider ==
    /\ cache = None /\ now = 1 /\ refreshes = 0
    /\ getter = [t \in Tasks |-> IdleGetter]

\* The pure functions.
InitPure ==
    /\ call \in AuthURLCalls \cup RedirectURLCalls \cup ParseCalls \cup ParseCodeCalls
    /\ ret = None
    /\ IdleToken /\ IdleHandler /\ IdleProvider
NextPure ==
    \/ CallGetAuthURL
    \/ CallGetRedirectURL
    \/ CallParseCallbackData
    \/ CallParseCodeCallbackData
SpecPure == InitPure /\ [][NextPure]_vars

\* The token client and the token endpoint.
InitToken == IdlePure /\ IdleToken /\ IdleHandler /\ IdleProvider
NextToken ==
    \E t \in Tasks :
        \/ CallGetGrantData(t)
        \/ CallRefresh(t)
        \/ FetchSettles(t)
        \/ GetGrantDataResume(t)
        \/ RefreshResume(t)
        \/ Collect(t)
SpecToken == InitToken /\ [][NextToken]_vars

\* The callback handler, the token client it calls and the login route.
InitHandler == IdlePure /\ IdleToken /\ IdleHandler /\ IdleProvider
NextHandler ==
    \/ IssueState
    \/ HandleCallback
    \/ \E t \in Tasks :
        \/ FetchSettles(t)
        \/ GetGrantDataResume(t)
        \/ CallbackContinue(t)
SpecHandler == InitHandler /\ [][NextHandler]_vars

\* The AuthProvider, the refresh function it calls and the clock.
InitProvider ==
    /\ IdlePure /\ IdleToken /\ IdleHandler
    /\ \E seed \in Seeds : cache = Provider(seed).token
    /\ now = 1 /\ refreshes = 0
    /\ getter = [t \in Tasks |-> IdleGetter]
NextProvider ==
    \/ Tick
    \/ \E t \in Tasks :
        \/ GetAccessToken(t)
        \/ FetchSettles(t)
        \/ RefreshResume(t)
        \/ GetAccessTokenResume(t)
        \/ GetAccessTokenDone(t)
SpecProvider == InitProvider /\ [][NextProvider]_vars

(***************************************************************************)
(* Properties of the pure functions (SpecPure).                            *)
(***************************************************************************)
\* The name of a segment of a callback string: what stands before its "=".
SegName(seg) == IF seg = <<>> THEN "" ELSE Head(seg)
SegValue(seg) == IF Len(seg) > 2 THEN SubSeq(seg, 3, Len(seg)) ELSE <<>>

\* The segments of call.hash that survive substring(1) intact: all of them
\* behind a leading "#"; without one the first character of the first
\* segment is lost, and with it that segment's name.
Surviving(c) ==
    IF c.lead # <<>> \/ c.segs = <<>> THEN c.segs ELSE Tail(c.segs)
Names(segs) == {SegName(segs[i]) : i \in 1..Len(segs)} \ {""}
LastValue(segs, k) ==
    SegValue(segs[CHOOSE i \in 1..Len(segs) :
                    /\ SegName(segs[i]) = k
                    /\ \A j \in (i + 1)..Len(segs) : SegName(segs[j]) # k])

\* C5: parseCallbackData of the implicit grant returns the parameters when
\* the fragment has an error key; otherwise returns them when access_token,
\* expires_in and token_type are all present; otherwise throws.
C5_ThreeOutcomes ==
    (call.op = "parseCallbackData" /\ ret.kind # "none") =>
        LET names == Names(Surviving(call))
        IN IF "error" \in names
           THEN /\ ret.kind = "return"
                /\ In("error", ret.value)
                /\ ret.value[<<"error">>] = LastValue(Surviving(call), "error")
           ELSE IF {"access_token", "expires_in", "token_type"} \subseteq names
           THEN /\ ret.kind = "return"
                /\ ~In("error", ret.value)
                /\ ret.value[<<"access_token">>] = LastValue(Surviving(call), "access_token")
                /\ In("expires_in", ret.value) /\ In("token_type", ret.value)
           ELSE ret = Throw("Invalid params")

C5_Witness ==
    /\ call.op = "parseCallbackData" /\ ret.kind = "return"
    /\ ~In("error", ret.value) /\ ret.value[<<"access_token">>] = <<"w">>

\* C6: what a callback parser returns holds exactly one of error and the
\* credential (access_token for the implicit grant, code for the
\* authorization code grant), never both.
C6_ExactlyOne ==
    /\ (call.op = "parseCallbackData" /\ ret.kind = "return") =>
            (In("error", ret.value) <=> ~In("access_token", ret.value))
    /\ (call.op = "parseCodeCallbackData" /\ ret.kind = "return") =>
            (In("error", ret.value) <=> ~In("code", ret.value))

\* The entries of the query of the URL a call returned.
QueryEntries == URLSearchParams(ret.value.search)
Count(k) == Cardinality({i \in 1..Len(QueryEntries) : QueryEntries[i][1] = <<k>>})
ValueOf(k) == QueryEntries[CHOOSE i \in 1..Len(QueryEntries) : QueryEntries[i][1] = <<k>>][2]
Omitted(arg) == arg.kind \in {"none", "undefined"}
Carried(k, arg) ==
    IF Omitted(arg) THEN Count(k) = 0
    ELSE Count(k) = 1 /\ ValueOf(k) = Stringify(arg)
ScopeCarried ==
    IF call.scopes.kind = "undefined" THEN Count("scope") = 0
    ELSE /\ Count("scope") = 1
         /\ ValueOf("scope") = JoinWith([i \in 1..Len(call.scopes.list) |->
                                            <<call.scopes.list[i]>>], " ")
Literal == IF call.op = "getAuthURL" THEN <<"code">> ELSE <<"token">>

\* The fields of the request other than response_type: each supplied one is
\* in the query once, unchanged, each omitted one is not in the query.
FieldsCarried ==
    (call.op \in {"getAuthURL", "getRedirectURL"} /\ ret.kind = "return") =>
        /\ Carried("client_id", Str(call.client_id))
        /\ Carried("redirect_uri", call.redirect_uri)
        /\ Carried("state", call.state)
        /\ Carried("show_dialog", call.show_dialog)
        /\ ScopeCarried

\* C9: the URL getAuthURL / getRedirectURL returns has response_type equal
\* to the flow's literal whatever options are passed, every other supplied
\* field once and unchanged, and no omitted optional field.
C9_ResponseTypeForced ==
    /\ FieldsCarried
    /\ (call.op \in {"getAuthURL", "getRedirectURL"} /\ ret.kind = "return") =>
            Count("response_type") = 1 /\ ValueOf("response_type") = Literal

(***************************************************************************)
(* Properties of the token client (SpecToken).                             *)
(***************************************************************************)
Started(t) == tc[t].pc # "idle"
Headers == [Authorization |-> [scheme |-> "Basic", base64 |-> <<"cid", ":", "secret">>],
            ContentType |-> "application/x-www-form-urlencoded"]

\* The parameters a request carries in its body, url-decoded.
BodyParams(req) ==
    IF req.body.kind = "string" THEN FromEntries(URLSearchParams(req.body.s))
    ELSE FromEntries(<<>>)
\* The parameters a request carries in the query of its URL, url-decoded.
QueryParams(req) == FromEntries(URLSearchParams(req.url.search))

GrantParams(code) ==
    FromEntries(<<<<<<"grant_type">>, <<"authorization_code">>>>,
                  <<<<"code">>, code>>,
                  <<<<"redirect_uri">>, REDIRECT_URI>>>>)
RefreshParams(rt) ==
    FromEntries(<<<<<<"grant_type">>, <<"refresh_token">>>>,
                  <<<<"refresh_token">>, rt>>>>)

\* C7: one call of getGrantData (of refresh) issues exactly one POST to the
\* token endpoint with its parameters url-encoded in the request body and
\* the Authorization and Content-Type headers, and returns the token pair
\* of a success response.
C7_BodyCarriesParams ==
    \A t \in Tasks : Started(t) =>
        /\ tc[t].fetches = 1
        /\ tc[t].req.method = "POST"
        /\ tc[t].req.url.base = <<"SPOTIFY_AUTH", "api/token">>
        /\ tc[t].req.headers = Headers
        /\ IF tc[t].op = "getGrantData"
           THEN \E code \in Codes : BodyParams(tc[t].req) = GrantParams(code)
           ELSE \E rt \in RefreshTokens : BodyParams(tc[t].req) = RefreshParams(rt)
        /\ (tc[t].pc = "done" /\ tc[t].res.kind = "response" /\ tc[t].res.ok)
                => tc[t].out = Return(tc[t].res.json)

\* What does hold of the requests: the same, with the parameters in the
\* query of the URL and no body.
QueryCarriesParams ==
    \A t \in Tasks : Started(t) =>
        /\ tc[t].fetches = 1
        /\ tc[t].req.method = "POST"
        /\ tc[t].req.url.base = <<"SPOTIFY_AUTH", "api/token">>
        /\ tc[t].req.headers = Headers
        /\ tc[t].req.body.kind = "undefined"
        /\ IF tc[t].op = "getGrantData"
           THEN \E code \in Codes : QueryParams(tc[t].req) = GrantParams(code)
           ELSE \E rt \in RefreshTokens : QueryParams(tc[t].req) = RefreshParams(rt)
        /\ (tc[t].pc = "done" /\ tc[t].res.kind = "response" /\ tc[t].res.ok)
                => tc[t].out = Return(tc[t].res.json)

\* C8: a non-success status makes getGrantData / refresh throw an AuthError
\* built from the response's status and error body and return no token
\* pair; a transport failure is thrown as it is, and is no AuthError; a call
\* makes one request and, once fetch has settled, makes no other.
C8_Settled ==
    \A t \in Tasks : (Started(t) /\ tc[t].pc = "done") =>
        /\ tc[t].fetches = 1
        /\ (tc[t].res.kind = "response" /\ ~tc[t].res.ok) =>
              /\ tc[t].out.kind = "throw"
              /\ tc[t].out.error = [name |-> "SpotifyAuthError",
                                    status |-> tc[t].res.status,
                                    body |-> tc[t].res.json]
        /\ tc[t].res.kind = "failure" =>
              /\ tc[t].out.kind = "throw"
              /\ tc[t].out.error.name # "SpotifyAuthError"
C8_NoRetry ==
    \A t \in Tasks : (Started(t) /\ tc[t].pc \in {"settled", "done"}) =>
        (sent' = sent \/ tc'[t].pc = "idle" \/ tc'[t] = tc[t])
C8_ErrorsNoRetry == []C8_Settled /\ [][C8_NoRetry]_vars

C8_Witness ==
    \E t \in Tasks :
        /\ tc[t].pc = "done" /\ tc[t].res.kind = "response" /\ ~tc[t].res.ok
        /\ tc[t].out.kind = "throw" /\ sent = 1

(***************************************************************************)
(* Properties of the AuthProvider (SpecProvider).                          *)
(***************************************************************************)
Calls(t) == getter[t].pc = "idle" /\ getter'[t].pc # "idle"
Settles(t) == getter[t].pc = "refreshing" /\ getter'[t].pc = "done"
Unexpired == cache.kind = "token" /\ now < cache.expires_at
Expired == cache.kind = "token" /\ now > cache.expires_at
Empty == cache.kind = "none"

\* C2: a getAccessToken() made while the cached token has not expired
\* invokes the refresh function zero times and returns the cached token; one
\* made with a token whose expiry is in the past invokes it exactly once.
C2_Step ==
    \A t \in Tasks : Calls(t) =>
        /\ Unexpired =>
              /\ refreshes' = refreshes /\ sent' = sent
              /\ getter'[t].pc = "done"
              /\ getter'[t].out = Return(cache.access_token)
        /\ Expired =>
              /\ refreshes' = refreshes + 1 /\ sent' = sent + 1
              /\ getter'[t].pc = "refreshing"
C2_LazyRefresh == [][C2_Step]_vars

\* A token obtained by a refresh has expired and a call made after its
\* expiry has invoked the refresh function once more.
C2_Witness ==
    \E t \in Tasks :
        /\ getter[t].pc = "refreshing" /\ cache.kind = "token"
        /\ cache.access_token > 0 /\ getter[t].at > cache.expires_at
        /\ refreshes = 2

\* C3: at most one refresh of a provider is in flight at any time: callers
\* that arrive while one is outstanding await it, so that concurrent calls
\* on an Empty provider invoke the refresh function once.
C3_OneRefreshInFlight ==
    /\ Cardinality({t \in Tasks : getter[t].pc = "refreshing"}) <= 1
    /\ (Empty /\ served = 0) => refreshes <= 1

\* C4: a refresh that fails is propagated to its caller and leaves the
\* cached token as it was; the next getAccessToken() on the still Empty or
\* Expired provider invokes the refresh function again.
Failed(t) == tc[t].res.kind = "failure" \/ ~tc[t].res.ok
C4_Step ==
    \A t \in Tasks :
        /\ (Settles(t) /\ Failed(t)) =>
              /\ cache' = cache
              /\ getter'[t].out.kind = "throw"
        /\ (Calls(t) /\ (Empty \/ Expired)) =>
              /\ refreshes' = refreshes + 1
              /\ getter'[t].pc = "refreshing"
C4_FailureNotCached == [][C4_Step]_vars

\* A refresh of an expired token has failed, the token is still cached and
\* a call made later has invoked the refresh function again.
C4_Witness ==
    \E t, u \in Tasks :
        /\ getter[t].pc = "done" /\ getter[t].out.kind = "throw"
        /\ cache.kind = "token" /\ cache.access_token = 0
        /\ getter[u].pc = "refreshing" /\ getter[u].at > getter[t].at
        /\ refreshes = 2

(***************************************************************************)
(* Properties of the callback handler (SpecHandler).                       *)
(***************************************************************************)
Params(req) == FromEntries(SearchParams(req.url.s))

\* The callback has no error key, a state is stored, and the callback's
\* state is a string equal to it.
Verified(req, jar) ==
    /\ req.url.kind = "string"
    /\ ~In("error", Params(req))
    /\ jar[SPOTIFY_STATE].kind = "string"
    /\ In("state", Params(req))
    /\ Params(req)[<<"state">>] = jar[SPOTIFY_STATE].s

\* The steps of the handler: it starts the exchange for a callback, it turns
\* a callback away without one, it ends after the exchange.
Exchanges(t) == http[t].pc = "idle" /\ http'[t].pc = "exchanging"
TurnsAway == http' = http /\ answer' # answer
Ends(t) == http[t].pc = "exchanging" /\ http'[t].pc = "idle"
NoExchange == sent' = sent /\ tc' = tc
Answers400 == ~answer'.threw /\ answer'.status = 400
\* A callback with neither error nor code, which the parser refuses.
Unparsable(req) ==
    /\ req.url.kind = "string"
    /\ ~In("error", Params(req)) /\ ~In("code", Params(req))

\* C1 as stated: the exchange is attempted only for a verified callback, and
\* every other callback is answered 400 with no exchange attempted.
C1_Step ==
    /\ \A t \in Tasks : Exchanges(t) => Verified(http'[t].req, cookies)
    /\ TurnsAway => (NoExchange /\ Answers400)
C1_Original == [][C1_Step]_vars

\* C1 as amended: the exchange is attempted only for a verified callback;
\* every other callback gets no exchange and is answered 400, except the
\* callback with neither error nor code, where the parser's error leaves
\* the handler before it has answered.
C1_AmendedStep ==
    /\ \A t \in Tasks : Exchanges(t) => Verified(http'[t].req, cookies)
    /\ TurnsAway =>
          /\ NoExchange
          /\ IF Unparsable(answer'.req) THEN answer'.threw ELSE Answers400
C1_VerifiedBeforeExchange == [][C1_AmendedStep]_vars

\* A callback whose state differs from the stored one has been answered 400.
C1_Witness ==
    /\ answer.kind = "answer" /\ answer.status = 400
    /\ answer.body = <<"Unable to verify request with state.">>
    /\ StateParam(answer.req) = Str(<<"s2">>)
    /\ cookies[SPOTIFY_STATE] = Str(<<"s1">>)

\* A callback that carries a code and a state that has passed verification
\* since the last state was issued.
Replay(req) ==
    /\ req.url.kind = "string"
    /\ In("code", Params(req))
    /\ StateParam(req) \in issued.spent
C10_Step ==
    /\ \A t \in Tasks :
        /\ Exchanges(t) =>
              /\ cookies'[SPOTIFY_STATE] = Undefined
              /\ ~Replay(http'[t].req)
        /\ Ends(t) => cookies'[SPOTIFY_STATE] = cookies[SPOTIFY_STATE]
    /\ TurnsAway =>
          /\ cookies' = cookies
          /\ Replay(answer'.req) => (NoExchange /\ Answers400)
C10_Absent == issued.spent # {} => cookies[SPOTIFY_STATE] = Undefined

====
